---- MODULE Spec2Model ----
(***************************************************************************)
(* Lubyanka: chess Position with FEN interchange (src/src/board.rs) and    *)
(* the pseudo-legal move generator (src/src/move_generation.rs).           *)
(*                                                                         *)
(* A text is a sequence of one-character strings.  A Board is a record     *)
(* with the fields of struct Board; Option::None is the value None.        *)
(* usize/isize values are modelled as mathematical integers: an index      *)
(* outside 0..63 used on a [_; 64] array is a panic, and a usize that      *)
(* wrapped below zero (release build) is kept as the negative integer it   *)
(* is congruent to modulo 2^64.                                            *)
(***************************************************************************)
EXTENDS Integers, Sequences, FiniteSets, TLC

VARIABLES
    board,      \* the Board being operated on (owned by the generator once one is built)
    outcome,    \* how the last operation ended: [op, status, err]
    input,      \* the text handed to the last from_fen call
    fen,        \* the text the last operation returned, when it was to_fen
    created,    \* the Board as it was when it was created (history)
    last,       \* arguments of the last move_piece / put_piece call (history)
    hasgen,     \* TRUE when a MoveGenerator has been built around board
    moves,      \* MoveGenerator.moves
    returned,   \* the Vec<Move> the last generate_moves call returned
    produced,   \* the moves pushed by the sub-generators during the last call (history)
    calls,      \* generate_moves calls since the board last changed (history)
    first,      \* MoveGenerator.moves as it was after the first of those calls (history)
    nops        \* operations applied since the board was created

vars == <<board, outcome, input, fen, created, last, hasgen, moves, returned,
          produced, calls, first, nops>>

----------------------------------------------------------------------------
(* Vocabulary                                                              *)

None == "None"

\* Option<usize>: None is the empty sequence, Some(i) the one-element sequence
NoSquare == <<>>

SomeSquare(i) == <<i>>

Pieces == {"Pawn", "Knight", "Bishop", "Rook", "Queen", "King"}

Colors == {"White", "Black"}

NumSquares == 64

SquareIndices == 0 .. (NumSquares - 1)

InBoard(i) == i \in SquareIndices

\* Rust's integer division and remainder truncate toward zero.
TruncDiv(a, b) == IF a >= 0 THEN a \div b ELSE -((-a) \div b)

TruncRem(a, b) == a - b * TruncDiv(a, b)

Abs(x) == IF x < 0 THEN -x ELSE x

DigitChars == <<"0", "1", "2", "3", "4", "5", "6", "7", "8", "9">>

DigitSet == {DigitChars[i] : i \in 1 .. Len(DigitChars)}

\* char::to_digit(10) on a decimal digit
to_digit(c) == (CHOOSE i \in 1 .. Len(DigitChars) : DigitChars[i] = c) - 1

FileLetters == <<"a", "b", "c", "d", "e", "f", "g", "h">>

RankDigits == <<"1", "2", "3", "4", "5", "6", "7", "8">>

SeqRange(s) == {s[i] : i \in 1 .. Len(s)}

----------------------------------------------------------------------------
(* Board                                                                   *)

\* DefaultBoard with the full-move number starting at 0
DefaultBoard_fullmove_zero ==
    [ squares |-> [i \in SquareIndices |-> None],
      colors |-> [i \in SquareIndices |-> None],
      to_move |-> "White",
      can_white_king_side_castle |-> FALSE,
      can_white_queen_side_castle |-> FALSE,
      can_black_king_side_castle |-> FALSE,
      can_black_queen_side_castle |-> FALSE,
      en_passant_square |-> NoSquare,
      half_move_clock |-> 0,
      full_move_number |-> 0 ]

\* impl Default for Board
DefaultBoard ==
    [ squares |-> [i \in SquareIndices |-> None],
      colors |-> [i \in SquareIndices |-> None],
      to_move |-> "White",
      can_white_king_side_castle |-> FALSE,
      can_white_queen_side_castle |-> FALSE,
      can_black_king_side_castle |-> FALSE,
      can_black_queen_side_castle |-> FALSE,
      en_passant_square |-> NoSquare,
      half_move_clock |-> 0,
      full_move_number |-> 1 ]

\* Board::is_square_empty
is_square_empty(b, index) == b.squares[index] = None /\ b.colors[index] = None

\* Board::is_piece_at_square
is_piece_at_square(b, index, piece, color) ==
    /\ b.squares[index] # None
    /\ b.colors[index] # None
    /\ b.squares[index] = piece
    /\ b.colors[index] = color

----------------------------------------------------------------------------
(* from_fen                                                                *)

U32Max == <<"4", "2", "9", "4", "9", "6", "7", "2", "9", "5">>

IsWhitespace(c) == c \in {" ", "\t", "\n"}

\* str::split_whitespace().collect(): the maximal runs of non-whitespace
\* characters, in the order they start
split_whitespace(text) ==
    LET n == Len(text)
        starts == {i \in 1 .. n :
                     ~IsWhitespace(text[i]) /\ (i = 1 \/ IsWhitespace(text[i - 1]))}
        EndOf(i) == CHOOSE j \in i .. n :
                        /\ \A k \in i .. j : ~IsWhitespace(text[k])
                        /\ (j = n \/ IsWhitespace(text[j + 1]))
        Nth(k) == CHOOSE s \in starts : Cardinality({x \in starts : x < s}) = k - 1
    IN  [k \in 1 .. Cardinality(starts) |-> SubSeq(text, Nth(k), EndOf(Nth(k)))]

\* PieceOfSymbol with the arms of 'Q'/'q' and 'K'/'k' exchanged
PieceOfSymbol_king_queen_swapped(c) ==
    CASE c = "P" -> <<"Pawn", "White">>
      [] c = "p" -> <<"Pawn", "Black">>
      [] c = "N" -> <<"Knight", "White">>
      [] c = "n" -> <<"Knight", "Black">>
      [] c = "B" -> <<"Bishop", "White">>
      [] c = "b" -> <<"Bishop", "Black">>
      [] c = "R" -> <<"Rook", "White">>
      [] c = "r" -> <<"Rook", "Black">>
      [] c = "Q" -> <<"King", "White">>
      [] c = "q" -> <<"King", "Black">>
      [] c = "K" -> <<"Queen", "White">>
      [] c = "k" -> <<"Queen", "Black">>
      [] OTHER -> <<>>

\* the inner match of the placement loop: piece letter -> (Piece, Color)
PieceOfSymbol(c) ==
    CASE c = "P" -> <<"Pawn", "White">>
      [] c = "p" -> <<"Pawn", "Black">>
      [] c = "N" -> <<"Knight", "White">>
      [] c = "n" -> <<"Knight", "Black">>
      [] c = "B" -> <<"Bishop", "White">>
      [] c = "b" -> <<"Bishop", "Black">>
      [] c = "R" -> <<"Rook", "White">>
      [] c = "r" -> <<"Rook", "Black">>
      [] c = "Q" -> <<"Queen", "White">>
      [] c = "q" -> <<"Queen", "Black">>
      [] c = "K" -> <<"King", "White">>
      [] c = "k" -> <<"King", "Black">>
      [] OTHER -> <<>>

ErrPiece == "invalid piece symbol in FEN"

ErrColor == "failed to parse active board color, must be 'b' or 'w'."

ErrCastling == "invalid castling rights in fen, must be a combination of 'K', 'Q', 'k', and 'q' or '-'"

ErrHalfMove == "failed to parse half move clock from fen"

ErrFullMove == "failed to parse full move number from fen"

ErrSquare == "Invalid square string"

\* One iteration of `for symbol in fen_string_fields[0].chars()`.
\* st = [file, rank, squares, colors, status]; overflow_checks is the build's
\* setting: with it `rank -= 1` at rank 0 panics, without it rank wraps.
PlacementStep(st, symbol, overflow_checks) ==
    IF st.status # "ok" THEN st
    ELSE IF symbol = "/"
    THEN IF st.rank = 0 /\ overflow_checks
         THEN [st EXCEPT !.status = "panic"]
         ELSE [st EXCEPT !.file = 0, !.rank = st.rank - 1]
    ELSE IF symbol \in SeqRange(RankDigits)
    THEN [st EXCEPT !.file = st.file + to_digit(symbol)]
    ELSE LET pc == PieceOfSymbol(symbol)
             index == st.rank * 8 + st.file
         IN  IF pc = <<>> THEN [st EXCEPT !.status = ErrPiece]
             ELSE IF ~InBoard(index) THEN [st EXCEPT !.status = "panic"]
             ELSE [st EXCEPT !.squares[index] = pc[1],
                             !.colors[index] = pc[2],
                             !.file = st.file + 1]

RECURSIVE PlacementScan(_, _, _, _, _)
\* the loop over the characters lo .. hi of the field, left to right (the range
\* is taken by halves: the first half's state is the second half's start, and
\* an error or a panic in the first half ends the loop)
PlacementScan(st, field, lo, hi, overflow_checks) ==
    IF lo > hi THEN st
    ELSE IF lo = hi THEN PlacementStep(st, field[lo], overflow_checks)
    ELSE LET mid == (lo + hi) \div 2
             left == PlacementScan(st, field, lo, mid, overflow_checks)
         IN  IF left.status # "ok" THEN left
             ELSE PlacementScan(left, field, mid + 1, hi, overflow_checks)

\* the placement loop of from_fen, from `let mut squares` to the loop's end
ParsePlacement(field, overflow_checks) ==
    PlacementScan([file |-> 0, rank |-> 7,
                   squares |-> [i \in SquareIndices |-> None],
                   colors |-> [i \in SquareIndices |-> None],
                   status |-> "ok"], field, 1, Len(field), overflow_checks)

RECURSIVE StripZeros(_)
StripZeros(s) == IF Len(s) > 1 /\ s[1] = "0" THEN StripZeros(Tail(s)) ELSE s

RECURSIVE DigitsLeq(_, _)
DigitsLeq(a, b) ==
    IF a = <<>> THEN TRUE
    ELSE IF to_digit(a[1]) # to_digit(b[1]) THEN to_digit(a[1]) < to_digit(b[1])
    ELSE DigitsLeq(Tail(a), Tail(b))

RECURSIVE DigitsValue(_, _)
DigitsValue(s, acc) ==
    IF s = <<>> THEN acc ELSE DigitsValue(Tail(s), acc * 10 + to_digit(s[1]))

\* ParseU32 that takes a leading '-' as it takes a leading '+'
ParseU32_sign_dropped(s) ==
    LET body == IF s # <<>> /\ s[1] \in {"+", "-"} THEN Tail(s) ELSE s
        sig == StripZeros(body)
        bad == [ok |-> FALSE, value |-> 0]
    IN  IF body = <<>> \/ \E i \in 1 .. Len(body) : body[i] \notin DigitSet THEN bad
        ELSE IF Len(sig) > Len(U32Max) THEN bad
        ELSE IF Len(sig) = Len(U32Max) /\ ~DigitsLeq(sig, U32Max) THEN bad
        ELSE [ok |-> TRUE, value |-> DigitsValue(sig, 0)]

\* str::parse::<u32>(): an optional '+', then one or more decimal digits, the
\* value at most u32::MAX; ok = FALSE stands for Err(ParseIntError).
ParseU32(s) ==
    LET body == IF s # <<>> /\ s[1] = "+" THEN Tail(s) ELSE s
        sig == StripZeros(body)
        bad == [ok |-> FALSE, value |-> 0]
    IN  IF body = <<>> \/ \E i \in 1 .. Len(body) : body[i] \notin DigitSet THEN bad
        ELSE IF Len(sig) > Len(U32Max) THEN bad
        ELSE IF Len(sig) = Len(U32Max) /\ ~DigitsLeq(sig, U32Max) THEN bad
        ELSE [ok |-> TRUE, value |-> DigitsValue(sig, 0)]

\* from_algebraic_notation with the index taken file-major
from_algebraic_notation_file_major(s) ==
    IF Len(s) = 2 /\ s[1] \in SeqRange(FileLetters) /\ s[2] \in SeqRange(RankDigits)
    THEN LET file == (CHOOSE i \in 1 .. 8 : FileLetters[i] = s[1]) - 1
             rank == (CHOOSE i \in 1 .. 8 : RankDigits[i] = s[2]) - 1
         IN  SomeSquare(file * 8 + rank)
    ELSE NoSquare

\* Square::from_algebraic_notation(..).as_index(); the empty sequence stands for
\* Err(InvalidSquare)
from_algebraic_notation(s) ==
    IF Len(s) = 2 /\ s[1] \in SeqRange(FileLetters) /\ s[2] \in SeqRange(RankDigits)
    THEN LET file == (CHOOSE i \in 1 .. 8 : FileLetters[i] = s[1]) - 1
             rank == (CHOOSE i \in 1 .. 8 : RankDigits[i] = s[2]) - 1
         IN  SomeSquare(rank * 8 + file)
    ELSE NoSquare

\* Board::parse_en_passant_square: [status, square]
parse_en_passant_square(field) ==
    IF field = <<"-">> THEN [status |-> "ok", square |-> NoSquare]
    ELSE LET idx == from_algebraic_notation(field)
         IN  IF idx = NoSquare THEN [status |-> ErrSquare, square |-> NoSquare]
             ELSE [status |-> "ok", square |-> idx]

\* castling_rights that looks at the first character of the field only
castling_rights_first_only(field) == {field[1]}

\* `let castling_rights: HashSet<char> = fen_string_fields[2].chars().collect()`
castling_rights_of(field) == SeqRange(field)

Panic == [status |-> "panic", err |-> None]

Failure(message) == [status |-> "err", err |-> message]

\* Board::from_fen: [status |-> "ok" | "err" | "panic", err], with the field
\* board when status = "ok".
\* fen_string_fields[k] on a Vec with at most k elements panics; the fields are
\* read in the order 0, 1, 2, 4, 5, 3.
from_fen(text, overflow_checks) ==
    LET fields == split_whitespace(text)
        n == Len(fields)
    IN  IF n < 1 THEN Panic
        ELSE LET pl == ParsePlacement(fields[1], overflow_checks)
        IN  IF pl.status = "panic" THEN Panic
        ELSE IF pl.status # "ok" THEN Failure(pl.status)
        ELSE IF n < 2 THEN Panic
        ELSE IF fields[2] \notin {<<"w">>, <<"b">>} THEN Failure(ErrColor)
        ELSE IF n < 3 THEN Panic
        ELSE LET castling_rights == castling_rights_of(fields[3])
        IN  IF ~(castling_rights \subseteq {"K", "Q", "k", "q", "-"}) THEN Failure(ErrCastling)
        ELSE IF n < 5 THEN Panic
        ELSE LET half_move_clock == ParseU32(fields[5])
        IN  IF ~half_move_clock.ok THEN Failure(ErrHalfMove)
        ELSE IF n < 6 THEN Panic
        ELSE LET full_move_number == ParseU32(fields[6])
        IN  IF ~full_move_number.ok THEN Failure(ErrFullMove)
        ELSE LET ep == parse_en_passant_square(fields[4])
        IN  IF ep.status # "ok" THEN Failure(ep.status)
        ELSE [ status |-> "ok", err |-> None,
               board |->
                 [ squares |-> pl.squares,
                   colors |-> pl.colors,
                   to_move |-> IF fields[2] = <<"w">> THEN "White" ELSE "Black",
                   can_white_king_side_castle |-> "K" \in castling_rights,
                   can_white_queen_side_castle |-> "Q" \in castling_rights,
                   can_black_king_side_castle |-> "k" \in castling_rights,
                   can_black_queen_side_castle |-> "q" \in castling_rights,
                   en_passant_square |-> ep.square,
                   half_move_clock |-> half_move_clock.value,
                   full_move_number |-> full_move_number.value ] ]

----------------------------------------------------------------------------
(* to_fen                                                                  *)

\* Piece::to_symbol(color): uppercase for White, lowercase for Black
to_symbol(piece, color) ==
    LET white == CASE piece = "Pawn" -> "P"
                   [] piece = "Knight" -> "N"
                   [] piece = "Bishop" -> "B"
                   [] piece = "Rook" -> "R"
                   [] piece = "Queen" -> "Q"
                   [] piece = "King" -> "K"
        black == CASE piece = "Pawn" -> "p"
                   [] piece = "Knight" -> "n"
                   [] piece = "Bishop" -> "b"
                   [] piece = "Rook" -> "r"
                   [] piece = "Queen" -> "q"
                   [] piece = "King" -> "k"
    IN  IF color = "White" THEN white ELSE black

RECURSIVE to_string(_)
\* u32::to_string(): decimal digits, no leading zeros
to_string(n) ==
    IF n < 10 THEN <<DigitChars[n + 1]>>
    ELSE Append(to_string(n \div 10), DigitChars[(n % 10) + 1])

RECURSIVE RankScan(_, _, _, _, _)
\* the `for file in 0..8` loop of to_fen and the flush after it
RankScan(b, rank, file, empty_squares, acc) ==
    IF file = 8
    THEN IF empty_squares > 0 THEN acc \o to_string(empty_squares) ELSE acc
    ELSE LET index == rank * 8 + file
             piece == b.squares[index]
             color == b.colors[index]
         IN  IF piece # None /\ color # None
             THEN RankScan(b, rank, file + 1, 0,
                           (IF empty_squares > 0 THEN acc \o to_string(empty_squares)
                            ELSE acc) \o <<to_symbol(piece, color)>>)
             ELSE RankScan(b, rank, file + 1, empty_squares + 1, acc)

RECURSIVE PlacementText(_, _)
\* the `for rank in (0..8).rev()` loop of to_fen
PlacementText(b, rank) ==
    RankScan(b, rank, 0, 0, <<>>)
        \o (IF rank > 0 THEN <<"/">> \o PlacementText(b, rank - 1) ELSE <<>>)

\* CastlingText with Black's letters written before White's
CastlingText_black_first(b) ==
    (IF b.can_black_king_side_castle THEN <<"k">> ELSE <<>>)
    \o (IF b.can_black_queen_side_castle THEN <<"q">> ELSE <<>>)
    \o (IF b.can_white_king_side_castle THEN <<"K">> ELSE <<>>)
    \o (IF b.can_white_queen_side_castle THEN <<"Q">> ELSE <<>>)
    \o (IF ~(b.can_white_king_side_castle \/ b.can_white_queen_side_castle
             \/ b.can_black_king_side_castle \/ b.can_black_queen_side_castle)
        THEN <<"-">> ELSE <<>>)

\* the castling field of to_fen
CastlingText(b) ==
    (IF b.can_white_king_side_castle THEN <<"K">> ELSE <<>>)
    \o (IF b.can_white_queen_side_castle THEN <<"Q">> ELSE <<>>)
    \o (IF b.can_black_king_side_castle THEN <<"k">> ELSE <<>>)
    \o (IF b.can_black_queen_side_castle THEN <<"q">> ELSE <<>>)
    \o (IF ~(b.can_white_king_side_castle \/ b.can_white_queen_side_castle
             \/ b.can_black_king_side_castle \/ b.can_black_queen_side_castle)
        THEN <<"-">> ELSE <<>>)

\* square_names with the table laid out file-major instead of rank-major
square_names_transposed(square) ==
    <<FileLetters[(square \div 8) + 1], RankDigits[(square % 8) + 1]>>

\* square_names[square] in to_fen
square_names(square) == <<FileLetters[(square % 8) + 1], RankDigits[(square \div 8) + 1]>>

\* the en-passant field of to_fen
EnPassantText(b) ==
    IF b.en_passant_square = NoSquare THEN <<"-">>
    ELSE square_names(b.en_passant_square[1])

\* Board::to_fen
to_fen(b) ==
    PlacementText(b, 7)
    \o <<" ">> \o (IF b.to_move = "White" THEN <<"w">> ELSE <<"b">>)
    \o <<" ">> \o CastlingText(b)
    \o <<" ">> \o EnPassantText(b)
    \o <<" ">> \o to_string(b.half_move_clock)
    \o <<" ">> \o to_string(b.full_move_number)

----------------------------------------------------------------------------
(* move application and setup                                              *)

\* Move::new
Move(starting_square, target_square) ==
    [starting_square |-> starting_square, target_square |-> target_square]

\* the side-to-move flip at the end of move_piece
Flip(color) == IF color = "White" THEN "Black" ELSE "White"

\* move_piece without the two stores that clear the source square
move_piece_keeps_source(b, mv) ==
    LET starting_piece == b.squares[mv.starting_square]
        starting_piece_color == b.colors[mv.starting_square]
        squares1 == [b.squares EXCEPT ![mv.target_square] = starting_piece]
        colors1 == [b.colors EXCEPT ![mv.target_square] = starting_piece_color]
    IN  [b EXCEPT !.squares = squares1, !.colors = colors1, !.to_move = Flip(b.to_move)]

\* move_piece that also resets the en-passant target, as a full make-move would
move_piece_clears_en_passant(b, mv) ==
    LET starting_piece == b.squares[mv.starting_square]
        starting_piece_color == b.colors[mv.starting_square]
        squares1 == [b.squares EXCEPT ![mv.target_square] = starting_piece]
        colors1 == [b.colors EXCEPT ![mv.target_square] = starting_piece_color]
        squares2 == [squares1 EXCEPT ![mv.starting_square] = None]
        colors2 == [colors1 EXCEPT ![mv.starting_square] = None]
    IN  [b EXCEPT !.squares = squares2, !.colors = colors2, !.to_move = Flip(b.to_move),
                  !.en_passant_square = NoSquare]

\* move_piece without the store that clears the source square's colour
move_piece_keeps_color(b, mv) ==
    LET starting_piece == b.squares[mv.starting_square]
        starting_piece_color == b.colors[mv.starting_square]
        squares1 == [b.squares EXCEPT ![mv.target_square] = starting_piece]
        colors1 == [b.colors EXCEPT ![mv.target_square] = starting_piece_color]
        squares2 == [squares1 EXCEPT ![mv.starting_square] = None]
    IN  [b EXCEPT !.squares = squares2, !.colors = colors1, !.to_move = Flip(b.to_move)]

\* move_piece that leaves the target alone when the source is empty
move_piece_skips_empty_source(b, mv) ==
    LET starting_piece == b.squares[mv.starting_square]
        starting_piece_color == b.colors[mv.starting_square]
        squares1 == [b.squares EXCEPT ![mv.target_square] = starting_piece]
        colors1 == [b.colors EXCEPT ![mv.target_square] = starting_piece_color]
        squares2 == [squares1 EXCEPT ![mv.starting_square] = None]
        colors2 == [colors1 EXCEPT ![mv.starting_square] = None]
    IN  IF starting_piece = None THEN [b EXCEPT !.to_move = Flip(b.to_move)]
        ELSE [b EXCEPT !.squares = squares2, !.colors = colors2, !.to_move = Flip(b.to_move)]

\* Board::move_piece: the four array stores in program order, then the flip
move_piece(b, mv) ==
    LET starting_piece == b.squares[mv.starting_square]
        starting_piece_color == b.colors[mv.starting_square]
        squares1 == [b.squares EXCEPT ![mv.target_square] = starting_piece]
        colors1 == [b.colors EXCEPT ![mv.target_square] = starting_piece_color]
        squares2 == [squares1 EXCEPT ![mv.starting_square] = None]
        colors2 == [colors1 EXCEPT ![mv.starting_square] = None]
    IN  [b EXCEPT !.squares = squares2, !.colors = colors2, !.to_move = Flip(b.to_move)]

\* Board::put_piece
put_piece(b, square, piece, color) ==
    [b EXCEPT !.squares[square] = piece, !.colors[square] = color]

----------------------------------------------------------------------------
(* MoveGenerator                                                           *)

\* MoveGenerator::new: direction_offsets, in the order N, S, W, E, NW, SE, NE, SW
direction_offsets == <<8, -8, -1, 1, 7, -7, 9, -9>>

Min(a, b) == IF a < b THEN a ELSE b

\* precompute_move_data with num_east and num_west exchanged
precompute_move_data_east_west_swapped ==
    [square_index \in SquareIndices |->
        LET rank == square_index \div 8
            file == square_index % 8
            num_north == 7 - rank
            num_south == rank
            num_east == file
            num_west == 7 - file
        IN  << num_north, num_south, num_west, num_east,
               Min(num_north, num_west), Min(num_south, num_east),
               Min(num_north, num_east), Min(num_south, num_west) >>]

\* MoveGenerator::precompute_move_data: num_squares_to_edge[square][direction]
\* (directions numbered from 1 here, from 0 in the source)
precompute_move_data ==
    [square_index \in SquareIndices |->
        LET rank == square_index \div 8
            file == square_index % 8
            num_north == 7 - rank
            num_south == rank
            num_east == 7 - file
            num_west == file
        IN  << num_north, num_south, num_west, num_east,
               Min(num_north, num_west), Min(num_south, num_east),
               Min(num_north, num_east), Min(num_south, num_west) >>]

num_squares_to_edge(square, direction_index) ==
    precompute_move_data[square][direction_index + 1]

\* A sub-generator's run: the moves it pushed onto self.moves, and whether it
\* panicked (an array index outside 0..63, or expect() on None).
Ran(pushed) == [status |-> "ok", pushed |-> pushed]

Panicked(pushed) == [status |-> "panic", pushed |-> pushed]

RECURSIVE SlideRay_through_enemy(_, _, _, _, _)
\* SlideRay that goes on scanning behind an opposing piece
SlideRay_through_enemy(b, start_square, direction_index, n, pushed) ==
    IF n >= num_squares_to_edge(start_square, direction_index) THEN Ran(pushed)
    ELSE LET target_square == start_square + direction_offsets[direction_index + 1] * (n + 1)
         IN  IF ~InBoard(target_square) THEN Panicked(pushed)
             ELSE IF b.colors[target_square] = b.to_move THEN Ran(pushed)
             ELSE SlideRay_through_enemy(b, start_square, direction_index, n + 1,
                                         Append(pushed, Move(start_square, target_square)))

RECURSIVE SlideRay(_, _, _, _, _)
\* the `for n in 0..num_squares_to_edge[start_square][direction_index]` loop
SlideRay(b, start_square, direction_index, n, pushed) ==
    IF n >= num_squares_to_edge(start_square, direction_index) THEN Ran(pushed)
    ELSE LET target_square == start_square + direction_offsets[direction_index + 1] * (n + 1)
         IN  IF ~InBoard(target_square) THEN Panicked(pushed)
             ELSE LET color_on_target_square == b.colors[target_square]
                  IN  IF color_on_target_square # None
                      THEN IF color_on_target_square # b.to_move
                           THEN Ran(Append(pushed, Move(start_square, target_square)))
                           ELSE Ran(pushed)
                      ELSE SlideRay(b, start_square, direction_index, n + 1,
                                    Append(pushed, Move(start_square, target_square)))

RECURSIVE SlideDirections(_, _, _, _, _)
\* the `for direction_index in start_direction_index..end_direction_index` loop
SlideDirections(b, start_square, direction_index, end_direction_index, pushed) ==
    IF direction_index >= end_direction_index THEN Ran(pushed)
    ELSE LET ray == SlideRay(b, start_square, direction_index, 0, pushed)
         IN  IF ray.status # "ok" THEN ray
             ELSE SlideDirections(b, start_square, direction_index + 1,
                                  end_direction_index, ray.pushed)

\* generate_sliding_moves that starts a bishop at direction 0 like the others
generate_sliding_moves_bishop_from_zero(b, start_square) ==
    LET piece == b.squares[start_square]
    IN  IF piece = None THEN Panicked(<<>>)
        ELSE LET end_direction_index == IF piece = "Rook" THEN 4 ELSE 8
             IN  SlideDirections(b, start_square, 0, end_direction_index, <<>>)

\* MoveGenerator::generate_sliding_moves
generate_sliding_moves(b, start_square) ==
    LET piece == b.squares[start_square]
    IN  IF piece = None THEN Panicked(<<>>)
        ELSE LET start_direction_index == IF piece = "Bishop" THEN 4 ELSE 0
                 end_direction_index == IF piece = "Rook" THEN 4 ELSE 8
             IN  SlideDirections(b, start_square, start_direction_index,
                                 end_direction_index, <<>>)

knight_move_offsets == <<-17, -15, -10, -6, 6, 10, 15, 17>>

\* KnightTargetOk without the Pacman filter
KnightTargetOk_range_only(start_square, offset) == start_square + offset \in 0 .. 63

\* the range and Pacman filters of generate_knight_moves for one offset
KnightTargetOk(start_square, offset) ==
    LET target_square == start_square + offset
        starting_rank == TruncDiv(start_square, 8)
        starting_file == TruncRem(start_square, 8)
        target_rank == TruncDiv(target_square, 8)
        target_file == TruncRem(target_square, 8)
    IN  /\ target_square \in 0 .. 63
        /\ ~(Abs(target_rank - starting_rank) > 2 \/ Abs(target_file - starting_file) > 2)

RECURSIVE KnightOffsets_onto_friendly(_, _, _, _)
\* KnightOffsets that pushes a move whatever stands on the target
KnightOffsets_onto_friendly(b, start_square, k, pushed) ==
    IF k > Len(knight_move_offsets) THEN Ran(pushed)
    ELSE LET offset == knight_move_offsets[k]
             target_square == start_square + offset
         IN  IF ~KnightTargetOk(start_square, offset)
             THEN KnightOffsets_onto_friendly(b, start_square, k + 1, pushed)
             ELSE KnightOffsets_onto_friendly(b, start_square, k + 1,
                                              Append(pushed, Move(start_square, target_square)))

RECURSIVE KnightOffsets(_, _, _, _)
\* the `for offset in knight_move_offsets` loop
KnightOffsets(b, start_square, k, pushed) ==
    IF k > Len(knight_move_offsets) THEN Ran(pushed)
    ELSE LET offset == knight_move_offsets[k]
             target_square == start_square + offset
         IN  IF ~KnightTargetOk(start_square, offset)
             THEN KnightOffsets(b, start_square, k + 1, pushed)
             ELSE IF b.colors[target_square] = None \/ b.colors[target_square] # b.to_move
             THEN KnightOffsets(b, start_square, k + 1,
                                Append(pushed, Move(start_square, target_square)))
             ELSE KnightOffsets(b, start_square, k + 1, pushed)

\* MoveGenerator::generate_knight_moves
generate_knight_moves(b, start_square) == KnightOffsets(b, start_square, 1, <<>>)

\* pawn_move_offsets of generate_pawn_moves
pawn_move_offsets(to_move) ==
    IF to_move = "White" THEN <<8, 16, 7, 9>> ELSE <<-8, -16, -7, -9>>

RECURSIVE PawnCaptures_no_file_check(_, _, _, _)
\* PawnCaptures without the file-delta condition
PawnCaptures_no_file_check(b, start_square, k, pushed) ==
    IF k > 4 THEN Ran(pushed)
    ELSE LET capture_index == start_square + pawn_move_offsets(b.to_move)[k]
         IN  IF ~InBoard(capture_index) THEN Panicked(pushed)
             ELSE IF b.colors[capture_index] # None /\ b.colors[capture_index] # b.to_move
             THEN PawnCaptures_no_file_check(b, start_square, k + 1,
                                             Append(pushed, Move(start_square, capture_index)))
             ELSE PawnCaptures_no_file_check(b, start_square, k + 1, pushed)

RECURSIVE PawnCaptures_takes_en_passant(_, _, _, _)
\* PawnCaptures that also captures onto the en-passant target
PawnCaptures_takes_en_passant(b, start_square, k, pushed) ==
    IF k > 4 THEN Ran(pushed)
    ELSE LET capture_index == start_square + pawn_move_offsets(b.to_move)[k]
             starting_file == TruncRem(start_square, 8)
             target_file == TruncRem(capture_index, 8)
         IN  IF ~InBoard(capture_index) THEN Panicked(pushed)
             ELSE IF /\ \/ (b.colors[capture_index] # None /\ b.colors[capture_index] # b.to_move)
                        \/ b.en_passant_square = SomeSquare(capture_index)
                     /\ Abs(target_file - starting_file) = 1
             THEN PawnCaptures_takes_en_passant(b, start_square, k + 1,
                                                Append(pushed, Move(start_square, capture_index)))
             ELSE PawnCaptures_takes_en_passant(b, start_square, k + 1, pushed)

RECURSIVE PawnCaptures(_, _, _, _)
\* the `for capture_offset in &pawn_move_offsets[2..]` loop: self.board.colors[..]
\* is indexed before the file delta is looked at
PawnCaptures(b, start_square, k, pushed) ==
    IF k > 4 THEN Ran(pushed)
    ELSE LET capture_index == start_square + pawn_move_offsets(b.to_move)[k]
             starting_file == TruncRem(start_square, 8)
             target_file == TruncRem(capture_index, 8)
         IN  IF ~InBoard(capture_index) THEN Panicked(pushed)
             ELSE IF /\ b.colors[capture_index] # None
                     /\ b.colors[capture_index] # b.to_move
                     /\ Abs(target_file - starting_file) = 1
             THEN PawnCaptures(b, start_square, k + 1,
                               Append(pushed, Move(start_square, capture_index)))
             ELSE PawnCaptures(b, start_square, k + 1, pushed)

\* generate_pawn_moves without the has_moved return
generate_pawn_moves_any_rank(b, start_square) ==
    LET offsets == pawn_move_offsets(b.to_move)
        target_one_up_index == start_square + offsets[1]
        target_one_up_rank == TruncDiv(target_one_up_index, 8)
    IN  IF ~InBoard(target_one_up_index) THEN Panicked(<<>>)
        ELSE
        LET can_move_up_one_rank == b.squares[target_one_up_index] = None
            is_promotion_move == target_one_up_rank = 0 \/ target_one_up_rank = 7
            single == IF can_move_up_one_rank /\ ~is_promotion_move
                      THEN <<Move(start_square, target_one_up_index)>>
                      ELSE <<>>
            captures == PawnCaptures(b, start_square, 3, single)
            target_two_up_index == start_square + offsets[2]
        IN  IF captures.status # "ok" THEN captures
            ELSE IF ~can_move_up_one_rank THEN captures
            ELSE IF ~InBoard(target_two_up_index) THEN Panicked(captures.pushed)
            ELSE IF b.squares[target_two_up_index] = None
            THEN Ran(Append(captures.pushed, Move(start_square, target_two_up_index)))
            ELSE captures

\* generate_pawn_moves that pushes the single advance onto an occupied square
generate_pawn_moves_onto_blocker(b, start_square) ==
    LET offsets == pawn_move_offsets(b.to_move)
        target_one_up_index == start_square + offsets[1]
        target_one_up_rank == TruncDiv(target_one_up_index, 8)
    IN  IF ~InBoard(target_one_up_index) THEN Panicked(<<>>)
        ELSE
        LET can_move_up_one_rank == b.squares[target_one_up_index] = None
            is_promotion_move == target_one_up_rank = 0 \/ target_one_up_rank = 7
            single == IF ~is_promotion_move
                      THEN <<Move(start_square, target_one_up_index)>>
                      ELSE <<>>
            captures == PawnCaptures(b, start_square, 3, single)
            starting_rank == start_square \div 8
            has_moved == \/ (starting_rank # 1 /\ b.to_move = "White")
                         \/ (starting_rank # 6 /\ b.to_move = "Black")
            target_two_up_index == start_square + offsets[2]
        IN  IF captures.status # "ok" THEN captures
            ELSE IF ~can_move_up_one_rank THEN captures
            ELSE IF has_moved THEN captures
            ELSE IF ~InBoard(target_two_up_index) THEN Panicked(captures.pushed)
            ELSE IF b.squares[target_two_up_index] = None
            THEN Ran(Append(captures.pushed, Move(start_square, target_two_up_index)))
            ELSE captures

\* MoveGenerator::generate_pawn_moves
generate_pawn_moves(b, start_square) ==
    LET offsets == pawn_move_offsets(b.to_move)
        target_one_up_index == start_square + offsets[1]
        target_one_up_rank == TruncDiv(target_one_up_index, 8)
    IN  IF ~InBoard(target_one_up_index) THEN Panicked(<<>>)
        ELSE
        LET can_move_up_one_rank == b.squares[target_one_up_index] = None
            is_promotion_move == target_one_up_rank = 0 \/ target_one_up_rank = 7
            single == IF can_move_up_one_rank /\ ~is_promotion_move
                      THEN <<Move(start_square, target_one_up_index)>>
                      ELSE <<>>
            captures == PawnCaptures(b, start_square, 3, single)
            starting_rank == start_square \div 8
            has_moved == \/ (starting_rank # 1 /\ b.to_move = "White")
                         \/ (starting_rank # 6 /\ b.to_move = "Black")
            target_two_up_index == start_square + offsets[2]
        IN  IF captures.status # "ok" THEN captures
            ELSE IF ~can_move_up_one_rank THEN captures
            ELSE IF has_moved THEN captures
            ELSE IF ~InBoard(target_two_up_index) THEN Panicked(captures.pushed)
            ELSE IF b.squares[target_two_up_index] = None
            THEN Ran(Append(captures.pushed, Move(start_square, target_two_up_index)))
            ELSE captures

\* GenerateSquare without the skip of the colour not to move
GenerateSquare_any_color(b, square) ==
    LET piece == b.squares[square]
        color == b.colors[square]
    IN  IF color = None THEN Ran(<<>>)
        ELSE IF piece = None THEN Panicked(<<>>)
        ELSE IF piece \in {"Queen", "Rook", "Bishop"} THEN generate_sliding_moves(b, square)
        ELSE IF piece = "Knight" THEN generate_knight_moves(b, square)
        ELSE IF piece = "Pawn" THEN generate_pawn_moves(b, square)
        ELSE Ran(<<>>)

\* GenerateSquare that hands a king to generate_sliding_moves
GenerateSquare_king_slides(b, square) ==
    LET piece == b.squares[square]
        color == b.colors[square]
    IN  IF color = None THEN Ran(<<>>)
        ELSE IF color # b.to_move THEN Ran(<<>>)
        ELSE IF piece = None THEN Panicked(<<>>)
        ELSE IF piece \in {"Queen", "Rook", "Bishop", "King"}
        THEN generate_sliding_moves(b, square)
        ELSE IF piece = "Knight" THEN generate_knight_moves(b, square)
        ELSE IF piece = "Pawn" THEN generate_pawn_moves(b, square)
        ELSE Ran(<<>>)

\* the body of the `for square in 0..64` loop of generate_moves
GenerateSquare(b, square) ==
    LET piece == b.squares[square]
        color == b.colors[square]
    IN  IF color = None THEN Ran(<<>>)
        ELSE IF color # b.to_move THEN Ran(<<>>)
        ELSE IF piece = None THEN Panicked(<<>>)
        ELSE IF piece \in {"Queen", "Rook", "Bishop"} THEN generate_sliding_moves(b, square)
        ELSE IF piece = "Knight" THEN generate_knight_moves(b, square)
        ELSE IF piece = "Pawn" THEN generate_pawn_moves(b, square)
        ELSE Ran(<<>>)

RECURSIVE ConcatRuns(_, _, _)
\* runs[lo].pushed \o ... \o runs[hi].pushed
ConcatRuns(runs, lo, hi) ==
    IF lo > hi THEN <<>>
    ELSE IF lo = hi THEN runs[lo].pushed
    ELSE LET mid == (lo + hi) \div 2
         IN  ConcatRuns(runs, lo, mid) \o ConcatRuns(runs, mid + 1, hi)

\* the `for square in 0..64` loop: everything pushed onto self.moves by the call.
\* The squares are visited in ascending order and the first panic ends the call.
GenerateAll(b) ==
    LET runs == [square \in SquareIndices |-> GenerateSquare(b, square)]
        failed == {square \in SquareIndices : runs[square].status # "ok"}
    IN  IF failed = {} THEN Ran(ConcatRuns(runs, 0, NumSquares - 1))
        ELSE LET stop == CHOOSE square \in failed : \A other \in failed : square <= other
             IN  Panicked(ConcatRuns(runs, 0, stop))

\* the value generate_moves returns: the local `moves`, which nothing is pushed to
ReturnedMoves(pushed) == <<>>

\* MoveGenerator::generate_moves: [status, pushed, returned]
generate_moves(b) ==
    LET run == GenerateAll(b)
    IN  [status |-> run.status, pushed |-> run.pushed,
         returned |-> ReturnedMoves(run.pushed)]

----------------------------------------------------------------------------
(* Inputs                                                                  *)

\* a string literal as a text
Chars(str) == [i \in 1 .. Len(str) |-> SubSeq(str, i, i)]

FenOf(placement, active, castling, en_passant, half_move, full_move) ==
    Chars(placement) \o <<" ">> \o Chars(active) \o <<" ">> \o Chars(castling)
    \o <<" ">> \o Chars(en_passant) \o <<" ">> \o Chars(half_move)
    \o <<" ">> \o Chars(full_move)

StartingFen == "rnbqkbnr/pppppppp/8/8/8/8/PPPPPPPP/RNBQKBNR w KQkq - 0 1"

EmptyFen == "8/8/8/8/8/8/8/8 w - - 0 1"

StartPlacement == "rnbqkbnr/pppppppp/8/8/8/8/PPPPPPPP/RNBQKBNR"

ItalianPlacement == "r1bqkbnr/pppp1ppp/2n5/4p3/2B1P3/5N2/PPPP1PPP/RNBQK2R"

\* placements from_fen accepts in every build
GoodPlacements ==
    { StartPlacement, ItalianPlacement, "8/8/8/8/8/8/8/8",
      "Qr5k/r7/2N5/8/8/8/8/6K1", "P6k/7P/8/8/8/8/p7/K6p",
      "44/8/8/8/8/8/8/8", "8/8", "8/8p/8/8/8/8/8/8", "k7/8/8/8/8/8/8/7N" }

\* placements that are rejected, abort, or depend on the build's overflow checks
OddPlacements ==
    { "9/8/8/8/8/8/8/8", "8/8/8/8/8/8/8/0", "8p/8/8/8/8/8/8/8", "ppppppppp/8/8/8/8/8/8/8",
      "8p/8/8/8/8/8/8/9",
      "8/8/8/8/8/8/8/8/8", "8/8/8/8/8/8/8/8/8P", "8/8/8/8/8/8/8/8/P", "8/8/8/8/x/8/8/8" }

ActiveFields == {"w", "b", "-", "W"}

\* the 16 combinations in the order to_fen writes them, "-" for none
CanonicalCastling ==
    { "-", "K", "Q", "k", "q", "KQ", "Kk", "Kq", "Qk", "Qq", "kq",
      "KQk", "KQq", "Kkq", "Qkq", "KQkq" }

OddCastling == {"qkQK", "K-", "KK", "x", "Kx", "-q"}

SquareNames == {<<FileLetters[f], RankDigits[r]>> : f \in 1 .. 8, r \in 1 .. 8}

OddSquares == {"-7", "h", "hh", "a9", "e33", "E3", "i1", "a0"}

HalfMoveFields ==
    {"0", "1", "50", "007", "+5", "-1", "x", "4294967296", "99999999999", "+", "2147483647", "1.5"}

FullMoveFields == {"1", "0", "2", "10", "x", "-1", "4294967296", "+3"}

\* texts with fewer or more than six fields, and other whitespace
FieldCountTexts ==
    { "", " ", "8/8/8/8/8/8/8/8", "8/8/8/8/8/8/8/8 w", "8/8/8/8/8/8/8/8 w -",
      "8/8/8/8/8/8/8/8 w - -", "8/8/8/8/8/8/8/8 w - - 0", "8/8/8/8/8/8/8/8 w - - x",
      "8/8/8/8/8/8/8/8 w - zz 0", "8/8/8/8/8/8/8/8 w - - 0 1 extra",
      "  8/8/8/8/8/8/8/8  b  Kq  e3  7  9  ", "9 w", "8/8/8/8/8/8/8/8 x", "8/8/8/8/8/8/8/8 w x" }

\* the texts the codec is exercised on
FenInputs ==
    {FenOf(p, a, c, "-", "0", "1") :
        p \in GoodPlacements \cup OddPlacements, a \in ActiveFields, c \in {"KQkq", "x"}}
    \cup {FenOf(p, a, c, e, "3", "12") :
        p \in {StartPlacement, "8/8p/8/8/8/8/8/8"}, a \in {"w", "b"},
        c \in CanonicalCastling \cup OddCastling, e \in {"-", "e3", "h8", "hh"}}
    \cup {Chars(ItalianPlacement) \o Chars(" b Kq ") \o e \o Chars(" 3 3") :
        e \in SquareNames \cup {Chars(o) : o \in OddSquares}}
    \cup {FenOf("8/8/8/8/8/8/8/8", "w", "-", e, h, f) :
        e \in {"-", "a1", "zz"}, h \in HalfMoveFields, f \in FullMoveFields}
    \cup {Chars(t) : t \in FieldCountTexts}

\* the Positions the board and generator operations start from
SceneFens ==
    { "rnbqkbnr/pp1ppppp/8/2p5/4P3/8/PPPP1PPP/RNBQKBNR w KQkq c6 0 2",
      "7k/7P/8/8/8/8/8/K7 w - - 0 1",
      "k7/8/8/8/8/8/p7/7K b - - 5 9",
      "P6k/8/8/8/8/8/8/K7 w - - 0 1",
      "Qr5k/r7/2N5/8/8/8/8/6K1 w - - 0 1",
      "4k3/8/8/8/8/8/8/4K3 b Kq e3 3 7" }

SceneInputs == {Chars(t) : t \in SceneFens}

\* (source, target) pairs handed to move_piece
MoveInputs ==
    { Move(12, 28), Move(52, 36), Move(28, 34), Move(4, 4), Move(20, 52),
      Move(0, 56), Move(4, 12), Move(40, 40) }

\* (square, piece, color) triples handed to put_piece
PutInputs == { <<55, "Pawn", "White">>, <<8, "Pawn", "Black">>, <<27, "Knight", "White">> }

\* the Positions the sub-generators are exercised on, before the piece under
\* test is put on its square
StageFens ==
    { "8/8/8/8/8/8/8/8 w - - 0 1",
      "8/8/8/8/8/8/8/8 b - - 0 1",
      "8/8/p7/6p1/8/8/8/8 w - - 0 1",
      "8/8/8/3p4/8/8/8/8 w KQ d6 0 2",
      "8/3p1p2/2p3p1/8/2P3P1/3P1P2/8/8 w - - 0 1",
      "1n2K3/3P2p1/p4N2/2P1p3/1p3P1p/4n1P1/P2p4/2k3N1 w - - 0 1",
      "1n2K3/3P2p1/p4N2/2P1p3/1p3P1p/4n1P1/P2p4/2k3N1 b kq f3 4 20" }

StageInputs == {Chars(t) : t \in StageFens}

\* the kinds of the piece under test
SubjectKinds == {"Queen", "Rook", "Bishop", "Knight", "Pawn"}

\* operations applied to one Board before the model stops following it
MaxOps == 2

----------------------------------------------------------------------------
(* State machine                                                           *)

Ended(op, status, err) == [op |-> op, status |-> status, err |-> err]

NoArgs == [op |-> "none"]

\* a panic aborts the process: nothing runs after it
Alive == outcome.status # "panic"

\* a Board has just been created: no generator owns it yet
Fresh(b) ==
    /\ board' = b
    /\ created' = b
    /\ nops' = 0
    /\ hasgen' = FALSE
    /\ moves' = <<>>
    /\ returned' = <<>>
    /\ produced' = <<>>
    /\ calls' = 0
    /\ first' = <<>>
    /\ last' = NoArgs

Init ==
    /\ board = DefaultBoard
    /\ outcome = Ended("default", "ok", None)
    /\ input = <<>>
    /\ fen = <<>>
    /\ created = DefaultBoard
    /\ last = NoArgs
    /\ hasgen = FALSE
    /\ moves = <<>>
    /\ returned = <<>>
    /\ produced = <<>>
    /\ calls = 0
    /\ first = <<>>
    /\ nops = 0

\* Board::default()
Default ==
    /\ Alive
    /\ Fresh(DefaultBoard)
    /\ outcome' = Ended("default", "ok", None)
    /\ fen' = <<>>
    /\ UNCHANGED input

\* from_fen is a pure function: its results on the scene texts, per build
SceneDecoded ==
    [text \in SceneInputs |-> [overflow_checks \in BOOLEAN |-> from_fen(text, overflow_checks)]]

StartingDecoded == [overflow_checks \in BOOLEAN |-> from_fen(Chars(StartingFen), overflow_checks)]

\* the caller of Board::from_fen(text) receives r
Decoded(text, r) ==
    /\ input' = text
    /\ outcome' = Ended("from_fen", r.status, r.err)
    /\ IF r.status = "ok"
       THEN Fresh(r.board)
       ELSE UNCHANGED <<board, created, nops, hasgen, moves, returned,
                        produced, calls, first, last>>
    /\ fen' = <<>>

\* Board::from_fen(text) on a scene text, in a build with or without overflow checks
FromFenScene ==
    /\ Alive
    /\ \E text \in SceneInputs, overflow_checks \in BOOLEAN :
         Decoded(text, SceneDecoded[text][overflow_checks])

\* Board::starting_position(): from_fen(..).expect(..)
StartingPosition ==
    /\ Alive
    /\ \E overflow_checks \in BOOLEAN :
         LET r == StartingDecoded[overflow_checks]
         IN  IF r.status = "ok"
             THEN /\ Fresh(r.board)
                  /\ outcome' = Ended("starting_position", "ok", None)
             ELSE /\ outcome' = Ended("starting_position", "panic", None)
                  /\ UNCHANGED <<board, created, nops, hasgen, moves, returned,
                                 produced, calls, first, last>>
    /\ fen' = <<>>
    /\ UNCHANGED input

\* board.to_fen()
ToFen ==
    /\ Alive
    /\ fen' = to_fen(board)
    /\ outcome' = Ended("to_fen", "ok", None)
    /\ UNCHANGED <<board, input, created, last, hasgen, moves, returned, produced,
                   calls, first, nops>>

\* board.move_piece(mv)
MovePiece ==
    /\ Alive
    /\ nops < MaxOps
    /\ \E mv \in MoveInputs :
         /\ board' = move_piece(board, mv)
         /\ last' = [op |-> "move_piece", mv |-> mv]
    /\ outcome' = Ended("move_piece", "ok", None)
    /\ nops' = nops + 1
    /\ calls' = 0
    /\ fen' = <<>>
    /\ UNCHANGED <<input, created, hasgen, moves, returned, produced, first>>

\* board.put_piece(square, piece, color)
PutPiece ==
    /\ Alive
    /\ nops < MaxOps
    /\ \E args \in PutInputs :
         /\ board' = put_piece(board, args[1], args[2], args[3])
         /\ last' = [op |-> "put_piece", square |-> args[1], piece |-> args[2],
                     color |-> args[3]]
    /\ outcome' = Ended("put_piece", "ok", None)
    /\ nops' = nops + 1
    /\ calls' = 0
    /\ fen' = <<>>
    /\ UNCHANGED <<input, created, hasgen, moves, returned, produced, first>>

\* MoveGenerator::new(board): the Board moves into the generator
NewGenerator ==
    /\ Alive
    /\ ~hasgen
    /\ hasgen' = TRUE
    /\ moves' = <<>>
    /\ returned' = <<>>
    /\ produced' = <<>>
    /\ calls' = 0
    /\ first' = <<>>
    /\ outcome' = Ended("new", "ok", None)
    /\ fen' = <<>>
    /\ UNCHANGED <<board, input, created, last, nops>>

\* move_generator.generate_moves()
GenerateMoves ==
    /\ Alive
    /\ hasgen
    /\ nops < MaxOps
    /\ LET r == generate_moves(board)
       IN  /\ moves' = moves \o r.pushed
           /\ returned' = r.returned
           /\ produced' = r.pushed
           /\ outcome' = Ended("generate_moves", r.status, None)
           /\ first' = IF calls = 0 THEN moves \o r.pushed ELSE first
    /\ calls' = calls + 1
    /\ nops' = nops + 1
    /\ fen' = <<>>
    /\ UNCHANGED <<board, input, created, last, hasgen>>

\* the program is handed one text of FenInputs and has not decoded it yet
InitFen ==
    /\ board = DefaultBoard
    /\ outcome = Ended("default", "ok", None)
    /\ input \in FenInputs
    /\ fen = <<>>
    /\ created = DefaultBoard
    /\ last = NoArgs
    /\ hasgen = FALSE
    /\ moves = <<>>
    /\ returned = <<>>
    /\ produced = <<>>
    /\ calls = 0
    /\ first = <<>>
    /\ nops = 0

\* Board::from_fen(input), once, in a build with or without overflow checks
FromFenText ==
    /\ Alive
    /\ outcome.op = "default"
    /\ \E overflow_checks \in BOOLEAN : Decoded(input, from_fen(input, overflow_checks))

StageDecoded == [text \in StageInputs |-> from_fen(text, TRUE)]

\* a stage Position has been decoded and nothing else was done
InitGen ==
    /\ input \in StageInputs
    /\ board = StageDecoded[input].board
    /\ outcome = Ended("from_fen", "ok", None)
    /\ fen = <<>>
    /\ created = board
    /\ last = NoArgs
    /\ hasgen = FALSE
    /\ moves = <<>>
    /\ returned = <<>>
    /\ produced = <<>>
    /\ calls = 0
    /\ first = <<>>
    /\ nops = 0

\* board.put_piece(square, piece, board.to_move): the piece under test
PlaceSubject ==
    /\ Alive
    /\ last.op = "none"
    /\ ~hasgen
    /\ \E square \in SquareIndices, piece \in SubjectKinds :
         /\ board' = put_piece(board, square, piece, board.to_move)
         /\ last' = [op |-> "put_piece", square |-> square, piece |-> piece,
                     color |-> board.to_move]
    /\ outcome' = Ended("put_piece", "ok", None)
    /\ fen' = <<>>
    /\ UNCHANGED <<input, created, hasgen, moves, returned, produced, calls, first, nops>>

\* a sub-generator called on the square of the piece under test has run as r
SubGenerated(op, r) ==
    /\ moves' = moves \o r.pushed
    /\ produced' = r.pushed
    /\ returned' = <<>>
    /\ outcome' = Ended(op, r.status, None)
    /\ first' = IF calls = 0 THEN moves \o r.pushed ELSE first
    /\ calls' = calls + 1
    /\ nops' = nops + 1
    /\ fen' = <<>>
    /\ UNCHANGED <<board, input, created, last, hasgen>>

\* move_generator.generate_sliding_moves(square)
SlidingMoves ==
    /\ Alive
    /\ hasgen
    /\ nops < MaxOps
    /\ last.op = "put_piece"
    /\ last.piece \in {"Queen", "Rook", "Bishop"}
    /\ SubGenerated("generate_sliding_moves", generate_sliding_moves(board, last.square))

\* move_generator.generate_knight_moves(square)
KnightMoves ==
    /\ Alive
    /\ hasgen
    /\ nops < MaxOps
    /\ last.op = "put_piece"
    /\ last.piece = "Knight"
    /\ SubGenerated("generate_knight_moves", generate_knight_moves(board, last.square))

\* move_generator.generate_pawn_moves(square)
PawnMoves ==
    /\ Alive
    /\ hasgen
    /\ nops < MaxOps
    /\ last.op = "put_piece"
    /\ last.piece = "Pawn"
    /\ SubGenerated("generate_pawn_moves", generate_pawn_moves(board, last.square))

\* the Board and the generator in use
Next ==
    \/ Default
    \/ StartingPosition
    \/ FromFenScene
    \/ ToFen
    \/ MovePiece
    \/ PutPiece
    \/ NewGenerator
    \/ GenerateMoves

Spec == Init /\ [][Next]_vars

\* the generator and its sub-generators, on a piece put on any square of a stage
NextGen ==
    \/ PlaceSubject
    \/ NewGenerator
    \/ SlidingMoves
    \/ KnightMoves
    \/ PawnMoves
    \/ GenerateMoves

SpecGen == InitGen /\ [][NextGen]_vars

\* the FEN codec alone, on the wide set of texts
NextFen ==
    \/ FromFenText
    \/ ToFen

SpecFen == InitFen /\ [][NextFen]_vars

----------------------------------------------------------------------------
(* Properties                                                              *)

\* the from_fen call just made returned Ok
DecodedOk == outcome.op = "from_fen" /\ outcome.status = "ok"

\* the castling rights, en-passant target and clocks of a Board
Bookkeeping(b) ==
    << b.can_white_king_side_castle, b.can_white_queen_side_castle,
       b.can_black_king_side_castle, b.can_black_queen_side_castle,
       b.en_passant_square, b.half_move_clock, b.full_move_number >>

\* C1: FEN round trip.  For every Position P that from_fen returned, in either
\* build, from_fen(to_fen(P)) is Ok and equals P field for field.
C1_RoundTrip ==
    DecodedOk =>
        \A overflow_checks \in BOOLEAN :
            from_fen(to_fen(board), overflow_checks)
                = [status |-> "ok", err |-> None, board |-> board]

\* a Position decoded from a text with pieces, Black to move, some but not all
\* castling rights, an en-passant target and non-zero clocks
C1_Witness ==
    /\ DecodedOk
    /\ board.to_move = "Black"
    /\ board.can_white_king_side_castle
    /\ ~board.can_white_queen_side_castle
    /\ board.en_passant_square = SomeSquare(63)
    /\ board.half_move_clock = 3
    /\ board.squares[26] = "Bishop"

\* C2: from_fen ends with a Position or a BoardError for every text and never
\* aborts the process.
C2_NeverAborts == outcome.op = "from_fen" => outcome.status # "panic"

\* C3: generate_moves never aborts and never indexes the board outside [0,64).
C3_GenerateNeverFails == outcome.op = "generate_moves" => outcome.status # "panic"

\* C4: the sequence generate_moves returns equals, as a set, the moves its
\* sub-generators produced during the call.
C4_ReturnsGenerated ==
    (outcome.op = "generate_moves" /\ outcome.status = "ok")
        => SeqRange(returned) = SeqRange(produced)

\* C5: generate_moves called again on an unchanged Position leaves the
\* generator's move list as it was after the first call.
C5_FreshPerCall ==
    (outcome.op = "generate_moves" /\ outcome.status = "ok" /\ calls >= 2)
        => moves = first

\* what move_piece(s, t) does to the squares other than s and t, and to the side to move
MoveFrame(b, after, s, t) ==
    /\ \A i \in SquareIndices \ {s, t} :
         after.squares[i] = b.squares[i] /\ after.colors[i] = b.colors[i]
    /\ after.to_move # b.to_move
    /\ after.to_move \in Colors

\* C6 as claimed: for every move (s, t) with s occupied, s = t included, after
\* move_piece t holds the pair that was on s, s is empty when s # t, the other
\* squares are unchanged and the side to move is flipped.
C6_RelocatesAlways ==
    [][ (outcome'.op = "move_piece" /\ board.squares[last'.mv.starting_square] # None)
        => LET s == last'.mv.starting_square
               t == last'.mv.target_square
           IN  /\ board'.squares[t] = board.squares[s]
               /\ board'.colors[t] = board.colors[s]
               /\ (s # t => board'.squares[s] = None /\ board'.colors[s] = None)
               /\ MoveFrame(board, board', s, t) ]_vars

\* C6 amended: the same for s # t; for s = t the square is empty after the call.
C6_Relocates ==
    [][ (outcome'.op = "move_piece" /\ board.squares[last'.mv.starting_square] # None)
        => LET s == last'.mv.starting_square
               t == last'.mv.target_square
           IN  /\ (s # t => /\ board'.squares[t] = board.squares[s]
                            /\ board'.colors[t] = board.colors[s])
               /\ board'.squares[s] = None
               /\ board'.colors[s] = None
               /\ MoveFrame(board, board', s, t) ]_vars

\* the rook of a1 has just captured on a8
C6_Witness ==
    /\ outcome.op = "move_piece"
    /\ last.mv = Move(0, 56)
    /\ board.squares[56] = "Rook"
    /\ board.colors[56] = "White"
    /\ board.squares[0] = None

\* C7: move_piece leaves the castling rights, the en-passant target and both
\* clocks alone: after any sequence of calls they are what the Position was
\* created with.
C7_BookkeepingKept == Bookkeeping(board) = Bookkeeping(created)

\* a pawn double push followed by a king move, on a Position created with
\* castling rights and an en-passant target
C7_Witness ==
    /\ outcome.op = "move_piece"
    /\ nops = 2
    /\ last.mv = Move(4, 12)
    /\ board.squares[12] = "King"
    /\ board.squares[36] = "Pawn"
    /\ board.can_white_king_side_castle
    /\ board.en_passant_square # NoSquare

\* C8: on every square the piece kind is present exactly when the colour is.
C8_CoPresence ==
    \A i \in SquareIndices : (board.squares[i] = None) <=> (board.colors[i] = None)

\* move_piece from an empty source has just emptied an occupied target
C8_Witness ==
    /\ outcome.op = "move_piece"
    /\ last.mv = Move(20, 52)
    /\ created.squares[52] # None
    /\ created.squares[20] = None
    /\ nops = 1
    /\ board.squares[52] = None

BackRank == <<"Rook", "Knight", "Bishop", "Queen", "King", "Bishop", "Knight", "Rook">>

\* the standard initial setup, square by square
StandardSetup ==
    [ squares |-> [i \in SquareIndices |->
                     IF i < 8 THEN BackRank[i + 1]
                     ELSE IF i < 16 THEN "Pawn"
                     ELSE IF i < 48 THEN None
                     ELSE IF i < 56 THEN "Pawn"
                     ELSE BackRank[i - 55]],
      colors |-> [i \in SquareIndices |->
                     IF i < 16 THEN "White" ELSE IF i < 48 THEN None ELSE "Black"],
      to_move |-> "White",
      can_white_king_side_castle |-> TRUE,
      can_white_queen_side_castle |-> TRUE,
      can_black_king_side_castle |-> TRUE,
      can_black_queen_side_castle |-> TRUE,
      en_passant_square |-> NoSquare,
      half_move_clock |-> 0,
      full_move_number |-> 1 ]

\* C9: starting_position is the standard initial setup, and to_fen of it is
\* "rnbqkbnr/pppppppp/8/8/8/8/PPPPPPPP/RNBQKBNR w KQkq - 0 1".
C9_StartingPosition ==
    /\ outcome.op = "starting_position" => board = StandardSetup
    /\ (outcome.op = "to_fen" /\ board = StandardSetup) => fen = Chars(StartingFen)

\* to_fen has just been called on the Board starting_position returned
C9_Witness ==
    /\ outcome.op = "to_fen"
    /\ board = StandardSetup
    /\ created = board
    /\ nops = 0
    /\ input = <<>>

\* C10: "8/8/8/8/8/8/8/8 w - - 0 1" decodes to the default Position, and to_fen
\* of the default Position is that text.
C10_EmptyBoard ==
    /\ (outcome.op = "from_fen" /\ input = Chars(EmptyFen))
           => (outcome.status = "ok" /\ board = DefaultBoard)
    /\ (outcome.op = "to_fen" /\ board = DefaultBoard) => fen = Chars(EmptyFen)

\* the empty-board text has just been decoded
C10_Witness ==
    /\ DecodedOk
    /\ input = Chars(EmptyFen)
    /\ board = DefaultBoard

----------------------------------------------------------------------------
(* Field decoding                                                          *)

\* the whitespace-separated fields of the text from_fen was handed
FenFields == split_whitespace(input)

\* the characters the placement loop has an arm for
PlacementAlphabet ==
    {"/"} \cup SeqRange(RankDigits)
    \cup {"P", "N", "B", "R", "Q", "K", "p", "n", "b", "r", "q", "k"}

\* C16: from_fen fails with "invalid piece symbol in FEN", and with nothing
\* else, whenever the placement field holds a character other than '/', a
\* digit 1 to 8 or one of the 12 piece letters.
C16_InvalidSymbol ==
    ( /\ outcome.op = "from_fen"
      /\ Len(FenFields) >= 1
      /\ \E i \in 1 .. Len(FenFields[1]) : FenFields[1][i] \notin PlacementAlphabet )
        => (outcome.status = "err" /\ outcome.err = ErrPiece)

\* from_fen was handed a text whose placement and active colour are decoded in
\* every build, so that the castling field is looked at
ReachesCastling ==
    /\ outcome.op = "from_fen"
    /\ Len(FenFields) >= 3
    /\ FenFields[1] \in {Chars(p) : p \in GoodPlacements}
    /\ FenFields[2] \in {<<"w">>, <<"b">>}

CastlingAlphabet == {"K", "Q", "k", "q", "-"}

Occurs(c, field) == \E i \in 1 .. Len(field) : field[i] = c

\* C17: the castling field is rejected with the invalid-castling-rights error
\* exactly when it holds a character outside K, Q, k, q, '-'; on a decoded
\* Position each right is true exactly when its letter occurs in the field.
C17_Castling ==
    ReachesCastling =>
        LET field == FenFields[3]
        IN  /\ (outcome.status = "err" /\ outcome.err = ErrCastling)
                  <=> (\E i \in 1 .. Len(field) : field[i] \notin CastlingAlphabet)
            /\ outcome.status = "ok" =>
                  /\ board.can_white_king_side_castle = Occurs("K", field)
                  /\ board.can_white_queen_side_castle = Occurs("Q", field)
                  /\ board.can_black_king_side_castle = Occurs("k", field)
                  /\ board.can_black_queen_side_castle = Occurs("q", field)

\* a field with '-' before a letter has been decoded: only that right is set
C17_Witness ==
    /\ DecodedOk
    /\ FenFields[3] = <<"-", "q">>
    /\ board.can_black_queen_side_castle
    /\ ~board.can_white_king_side_castle
    /\ ~board.can_white_queen_side_castle
    /\ ~board.can_black_king_side_castle

\* clock fields that are non-negative decimal integers fitting 32 bits, with
\* the number each one writes
ClockValues ==
    { <<"0", 0>>, <<"1", 1>>, <<"2", 2>>, <<"3", 3>>, <<"7", 7>>, <<"9", 9>>,
      <<"10", 10>>, <<"12", 12>>, <<"50", 50>>, <<"007", 7>>, <<"+5", 5>>,
      <<"+3", 3>>, <<"2147483647", 2147483647>> }

\* clock fields that are negative, not numbers, or above 4294967295
ClockRejects == {"-1", "x", "+", "1.5", "4294967296", "99999999999"}

IsClock(field) == \E cv \in ClockValues : field = Chars(cv[1])

ClockOf(field) == (CHOOSE cv \in ClockValues : field = Chars(cv[1]))[2]

IsClockReject(field) == \E t \in ClockRejects : field = Chars(t)

\* the castling field was accepted, so that the clocks are looked at
ReachesClocks ==
    /\ ReachesCastling
    /\ \A i \in 1 .. Len(FenFields[3]) : FenFields[3][i] \in CastlingAlphabet
    /\ Len(FenFields) >= 5

\* C18: a half-move or full-move field that is not a non-negative decimal
\* integer fitting 32 bits fails with that field's error; when both are, no
\* clock error is reported and a decoded Position stores both values.
C18_Clocks ==
    ReachesClocks =>
        LET half == FenFields[5]
        IN  /\ IsClock(half) \/ IsClockReject(half)
            /\ IsClockReject(half) => (outcome.status = "err" /\ outcome.err = ErrHalfMove)
            /\ (IsClock(half) /\ Len(FenFields) >= 6) =>
                  LET full == FenFields[6]
                  IN  /\ IsClock(full) \/ IsClockReject(full)
                      /\ IsClockReject(full)
                            => (outcome.status = "err" /\ outcome.err = ErrFullMove)
                      /\ IsClock(full) =>
                            /\ outcome.err \notin {ErrHalfMove, ErrFullMove}
                            /\ outcome.status # "panic"
                            /\ outcome.status = "ok" =>
                                  /\ board.half_move_clock = ClockOf(half)
                                  /\ board.full_move_number = ClockOf(full)

\* clocks written with a leading zero and with a leading '+' have been decoded
C18_Witness ==
    /\ DecodedOk
    /\ FenFields[5] = Chars("007")
    /\ FenFields[6] = Chars("+3")
    /\ board.half_move_clock = 7
    /\ board.full_move_number = 3

\* both clocks were accepted, so that the en-passant field is looked at
ReachesEnPassant ==
    /\ ReachesClocks
    /\ Len(FenFields) >= 6
    /\ IsClock(FenFields[5])
    /\ IsClock(FenFields[6])

\* the index of a file letter followed by a rank digit: (rank - 1) * 8 + file
IndexOfName(name) ==
    (to_digit(name[2]) - 1) * 8 + ((CHOOSE f \in 1 .. 8 : FileLetters[f] = name[1]) - 1)

\* C19: "-" decodes to no target, a file letter and a rank digit to
\* (rank - 1) * 8 + file, any other text fails with the invalid-square error;
\* and the name to_fen writes for a target decodes back to that target.
C19_EnPassant ==
    /\ ReachesEnPassant =>
          LET field == FenFields[4]
          IN  IF field = <<"-">>
              THEN outcome.status = "ok" /\ board.en_passant_square = NoSquare
              ELSE IF field \in SquareNames
              THEN /\ outcome.status = "ok"
                   /\ board.en_passant_square = SomeSquare(IndexOfName(field))
              ELSE outcome.status = "err" /\ outcome.err = ErrSquare
    /\ (outcome.op = "to_fen" /\ board.en_passant_square # NoSquare) =>
          LET written == split_whitespace(fen)[4]
              back == parse_en_passant_square(written)
          IN  back.status = "ok" /\ back.square = board.en_passant_square

\* a Position decoded with the target b6 has been written back with that name
C19_Witness ==
    /\ outcome.op = "to_fen"
    /\ Len(FenFields) = 6
    /\ FenFields[4] = <<"b", "6">>
    /\ board.en_passant_square = SomeSquare(41)
    /\ split_whitespace(fen)[4] = <<"b", "6">>

----------------------------------------------------------------------------
(* Move generation, square by square                                       *)

RankOf(i) == i \div 8

FileOf(i) == i % 8

OnGrid(rank, file) == rank \in 0 .. 7 /\ file \in 0 .. 7

\* +1 rank per move for White, -1 for Black
Forward(color) == IF color = "White" THEN 1 ELSE -1

\* the moves of a sequence that start on s: their indices and their targets
IndicesFrom(seq, s) == {i \in 1 .. Len(seq) : seq[i].starting_square = s}

TargetsFrom(seq, s) == {seq[i].target_square : i \in IndicesFrom(seq, s)}

\* the squares whose generated moves the last call put into `produced`: the
\* square a sub-generator was called on, or every square of the side to move
\* that holds one of the kinds when generate_moves ran to its end
CheckedSquares(op, kinds) ==
    IF outcome.op = op THEN {last.square}
    ELSE IF outcome.op = "generate_moves" /\ outcome.status = "ok"
    THEN {s \in SquareIndices : board.colors[s] = board.to_move /\ board.squares[s] \in kinds}
    ELSE {}

OrthogonalSteps == {<<1, 0>>, <<-1, 0>>, <<0, 1>>, <<0, -1>>}

DiagonalSteps == {<<1, 1>>, <<1, -1>>, <<-1, 1>>, <<-1, -1>>}

\* the (rank, file) steps of the rays of a sliding piece
RaySteps(piece) ==
    IF piece = "Rook" THEN OrthogonalSteps
    ELSE IF piece = "Bishop" THEN DiagonalSteps
    ELSE OrthogonalSteps \cup DiagonalSteps

RayOnGrid(s, d, k) == OnGrid(RankOf(s) + k * d[1], FileOf(s) + k * d[2])

RaySquare(s, d, k) == (RankOf(s) + k * d[1]) * 8 + FileOf(s) + k * d[2]

\* the squares of the ray from s along d up to the first occupied square, that
\* square left out when it holds a piece of the side to move
RayTargets(b, s, d) ==
    { RaySquare(s, d, k) :
        k \in { k \in 1 .. 7 :
                  /\ RayOnGrid(s, d, k)
                  /\ \A j \in 1 .. (k - 1) : b.colors[RaySquare(s, d, j)] = None
                  /\ b.colors[RaySquare(s, d, k)] # b.to_move } }

ExpectedSliding(b, s) == UNION {RayTargets(b, s, d) : d \in RaySteps(b.squares[s])}

Sgn(x) == IF x > 0 THEN 1 ELSE IF x < 0 THEN -1 ELSE 0

\* the step of the ray from s that t lies on, and how far along it
StepTo(s, t) == <<Sgn(RankOf(t) - RankOf(s)), Sgn(FileOf(t) - FileOf(s))>>

Distance(s, t) ==
    IF Abs(RankOf(t) - RankOf(s)) > Abs(FileOf(t) - FileOf(s))
    THEN Abs(RankOf(t) - RankOf(s)) ELSE Abs(FileOf(t) - FileOf(s))

\* C11: the moves generated for a queen, rook or bishop of the side to move
\* are, ray by ray and nearest square first, exactly the squares up to the
\* first occupied one, that square included only when it holds an opposing
\* piece; each of them is generated once.
C11_SlidingRays ==
    \A s \in CheckedSquares("generate_sliding_moves", {"Queen", "Rook", "Bishop"}) :
        /\ TargetsFrom(produced, s) = ExpectedSliding(board, s)
        /\ Cardinality(IndicesFrom(produced, s)) = Cardinality(ExpectedSliding(board, s))
        /\ \A i, j \in IndicesFrom(produced, s) :
              ( /\ i < j
                /\ StepTo(s, produced[i].target_square) = StepTo(s, produced[j].target_square) )
                  => Distance(s, produced[i].target_square)
                        < Distance(s, produced[j].target_square)

\* a White queen on d4 with own pieces on d7, f4, c5 and opposing pieces on d2,
\* b4, e3, e5: 12 moves, the capture on d2 among them and nothing behind it
C11_Witness ==
    /\ outcome.op = "generate_sliding_moves"
    /\ last.square = 27
    /\ last.piece = "Queen"
    /\ board.to_move = "White"
    /\ board.colors[11] = "Black"
    /\ board.colors[51] = "White"
    /\ Len(produced) = 12
    /\ Move(27, 11) \in SeqRange(produced)
    /\ Move(27, 3) \notin SeqRange(produced)
    /\ Move(27, 51) \notin SeqRange(produced)

KnightDeltas ==
    {d \in {-2, -1, 1, 2} \X {-2, -1, 1, 2} : Abs(d[1]) # Abs(d[2])}

\* the squares a knight's jump from s away on the 8x8 grid
KnightJumps(s) ==
    { (RankOf(s) + d[1]) * 8 + FileOf(s) + d[2] :
        d \in {d \in KnightDeltas : OnGrid(RankOf(s) + d[1], FileOf(s) + d[2])} }

\* C12: for every source square and each of the 8 offsets the candidate passes
\* the generator's filter exactly when the target is a knight's jump away on
\* the grid; the moves generated are the jumps not held by the side to move.
C12_KnightJumps ==
    \A s \in CheckedSquares("generate_knight_moves", {"Knight"}) :
        /\ \A k \in 1 .. Len(knight_move_offsets) :
              KnightTargetOk(s, knight_move_offsets[k])
                 <=> (s + knight_move_offsets[k]) \in KnightJumps(s)
        /\ TargetsFrom(produced, s) = {t \in KnightJumps(s) : board.colors[t] # board.to_move}
        /\ Cardinality(IndicesFrom(produced, s)) = Cardinality(TargetsFrom(produced, s))

\* a knight on h1 of the empty board: h1-f2 and h1-g3
C12_Witness ==
    /\ outcome.op = "generate_knight_moves"
    /\ last.square = 7
    /\ board.colors[13] = None
    /\ board.colors[22] = None
    /\ produced = <<Move(7, 13), Move(7, 22)>>

\* C13: a generated pawn move that changes file goes one file sideways and one
\* rank forward onto a piece of the opposing colour; a White pawn on h4 with
\* opposing pawns on g5 and a6 generates h4-g5 and h4-h5 and nothing else.
C13_PawnCaptures ==
    \A s \in CheckedSquares("generate_pawn_moves", {"Pawn"}) :
        /\ \A i \in IndicesFrom(produced, s) :
              LET t == produced[i].target_square
              IN  FileOf(t) # FileOf(s) =>
                     /\ Abs(FileOf(t) - FileOf(s)) = 1
                     /\ RankOf(t) = RankOf(s) + Forward(board.to_move)
                     /\ board.colors[t] \notin {None, board.to_move}
        /\ ( /\ s = 31
             /\ board.to_move = "White"
             /\ board.colors[38] = "Black"
             /\ board.colors[40] = "Black"
             /\ board.colors[39] = None )
              => TargetsFrom(produced, s) = {38, 39}

\* the h4 pawn next to g5 and a6
C13_Witness ==
    /\ outcome.op = "generate_pawn_moves"
    /\ last.square = 31
    /\ board.to_move = "White"
    /\ board.squares[38] = "Pawn"
    /\ board.colors[38] = "Black"
    /\ board.colors[40] = "Black"
    /\ SeqRange(produced) = {Move(31, 38), Move(31, 39)}

HomeRank(color) == IF color = "White" THEN 1 ELSE 6

\* C14: the two-square advance is generated exactly when the pawn of the side
\* to move stands on its home rank and the two squares ahead are empty.
C14_DoublePush ==
    \A s \in CheckedSquares("generate_pawn_moves", {"Pawn"}) :
        LET one == s + 8 * Forward(board.to_move)
            two == s + 16 * Forward(board.to_move)
        IN  (two \in TargetsFrom(produced, s))
               <=> ( /\ RankOf(s) = HomeRank(board.to_move)
                     /\ board.squares[one] = None
                     /\ board.squares[two] = None )

\* a White pawn on b2 with b3 empty and b4 occupied: the single push only
C14_Witness ==
    /\ outcome.op = "generate_pawn_moves"
    /\ outcome.status = "ok"
    /\ last.square = 9
    /\ board.to_move = "White"
    /\ board.squares[17] = None
    /\ board.squares[25] # None
    /\ produced = <<Move(9, 17)>>

\* C15: the one-square advance is generated only onto an empty square; when
\* the square ahead holds a piece of either colour neither the single nor the
\* double advance is generated.
C15_SinglePush ==
    \A s \in CheckedSquares("generate_pawn_moves", {"Pawn"}) :
        LET one == s + 8 * Forward(board.to_move)
            two == s + 16 * Forward(board.to_move)
        IN  /\ one \in TargetsFrom(produced, s)
               => (InBoard(one) /\ board.squares[one] = None)
            /\ (InBoard(one) /\ board.squares[one] # None)
               => (one \notin TargetsFrom(produced, s) /\ two \notin TargetsFrom(produced, s))

\* a White pawn on e2 behind a piece on e3, e4 empty: no advance at all
C15_Witness ==
    /\ outcome.op = "generate_pawn_moves"
    /\ outcome.status = "ok"
    /\ last.square = 12
    /\ board.to_move = "White"
    /\ board.squares[20] = "Knight"
    /\ board.squares[28] = None
    /\ produced = <<>>

\* Positions with the occupancy and the side to move of b and other castling
\* rights, en-passant targets and clocks
BookkeepingVariants(b) ==
    { [b EXCEPT !.en_passant_square = e,
                !.can_white_king_side_castle = c,
                !.can_white_queen_side_castle = ~c,
                !.can_black_king_side_castle = ~c,
                !.can_black_queen_side_castle = c,
                !.half_move_clock = IF c THEN 0 ELSE 7,
                !.full_move_number = IF c THEN 1 ELSE 30] :
        e \in {NoSquare, SomeSquare(43), SomeSquare(21)}, c \in BOOLEAN }

\* C20: generate_moves gives the same moves on Positions that differ only in
\* castling rights, en-passant target and clocks; no pawn move changing file
\* goes to an empty en-passant target.
C20_OccupancyOnly ==
    outcome.op = "generate_moves" =>
        /\ \A v \in BookkeepingVariants(board) :
              LET r == generate_moves(v)
              IN  r.status = outcome.status /\ r.pushed = produced /\ r.returned = returned
        /\ board.en_passant_square # NoSquare =>
              LET target == board.en_passant_square[1]
              IN  board.colors[target] = None =>
                     \A i \in 1 .. Len(produced) :
                        ~ ( /\ produced[i].target_square = target
                            /\ board.squares[produced[i].starting_square] = "Pawn"
                            /\ FileOf(produced[i].starting_square) # FileOf(target) )

\* a White pawn on e5 beside the Black pawn of d5, en-passant target d6
C20_Witness ==
    /\ outcome.op = "generate_moves"
    /\ outcome.status = "ok"
    /\ board.en_passant_square = SomeSquare(43)
    /\ board.colors[43] = None
    /\ board.squares[36] = "Pawn"
    /\ board.colors[36] = "White"
    /\ board.squares[35] = "Pawn"
    /\ board.colors[35] = "Black"
    /\ produced = <<Move(36, 44)>>

\* the rank index a pawn of the colour promotes on
PromotionRank(color) == IF color = "White" THEN 7 ELSE 0

\* the kinds a pawn can promote to
PromotableKinds == {"Knight", "Bishop", "Rook", "Queen"}

\* C21: for a pawn of the side to move whose square ahead is empty and on the
\* promotion rank, moves to that square are generated, one per promotable kind.
C21_PromotionPushes ==
    \A s \in CheckedSquares("generate_pawn_moves", {"Pawn"}) :
        LET one == s + 8 * Forward(board.to_move)
        IN  ( /\ InBoard(one)
              /\ RankOf(one) = PromotionRank(board.to_move)
              /\ board.squares[one] = None )
               => Cardinality({i \in IndicesFrom(produced, s) : produced[i].target_square = one})
                     = Cardinality(PromotableKinds)

\* C22: the full-move number of every Position from_fen returns, and of every
\* Position reached from it, is at least 1.
C22_FullMovePositive == board.full_move_number >= 1

\* the (rank, file) step of each direction, in the order N, S, W, E, NW, SE, NE, SW
DirectionSteps ==
    << <<1, 0>>, <<-1, 0>>, <<0, -1>>, <<0, 1>>, <<1, -1>>, <<-1, 1>>, <<1, 1>>, <<-1, -1>> >>

\* the number of squares from s to the edge along a step, counted on (rank, file)
EdgeDistance(s, d) == Cardinality({k \in 1 .. 7 : RayOnGrid(s, d, k)})

\* C23: for every square and each of the 8 directions the precomputed
\* distance is the number of squares to the edge counted on (file, rank), the
\* flat offset is that of the direction's step, and every s + n * offset up to
\* the distance is the square n steps along the direction, on the board.
C23_GeometryTables ==
    outcome.op = "new" =>
        \A s \in SquareIndices, direction_index \in 0 .. 7 :
            LET d == DirectionSteps[direction_index + 1]
                offset == direction_offsets[direction_index + 1]
            IN  /\ offset = 8 * d[1] + d[2]
                /\ num_squares_to_edge(s, direction_index) = EdgeDistance(s, d)
                /\ \A n \in 1 .. num_squares_to_edge(s, direction_index) :
                      /\ s + n * offset \in 0 .. 63
                      /\ RayOnGrid(s, d, n)
                      /\ s + n * offset = RaySquare(s, d, n)

\* the tables of a generator just built: d4 is 3 squares from the edge to the
\* north-west and to the south-east, h1 none to the east
C23_Witness ==
    /\ outcome.op = "new"
    /\ hasgen
    /\ num_squares_to_edge(27, 4) = 3
    /\ num_squares_to_edge(27, 5) = 3
    /\ num_squares_to_edge(7, 3) = 0
    /\ num_squares_to_edge(7, 0) = 7

\* C24: every move generated for a bishop runs along a diagonal, every move
\* generated for a rook along a rank or a file, and a queen's moves run in
\* each of the 8 directions in which a move is open to it.
C24_DirectionSets ==
    \A s \in CheckedSquares("generate_sliding_moves", {"Queen", "Rook", "Bishop"}) :
        LET piece == board.squares[s]
            steps == {StepTo(s, t) : t \in TargetsFrom(produced, s)}
        IN  /\ \A t \in TargetsFrom(produced, s) :
                  LET rank_delta == Abs(RankOf(t) - RankOf(s))
                      file_delta == Abs(FileOf(t) - FileOf(s))
                  IN  /\ piece = "Bishop" => (rank_delta = file_delta /\ rank_delta > 0)
                      /\ piece = "Rook" => ((rank_delta = 0) # (file_delta = 0))
                      /\ piece = "Queen" =>
                            \/ (rank_delta = file_delta /\ rank_delta > 0)
                            \/ ((rank_delta = 0) # (file_delta = 0))
            /\ piece = "Queen" =>
                  steps = { d \in OrthogonalSteps \cup DiagonalSteps :
                              /\ RayOnGrid(s, d, 1)
                              /\ board.colors[RaySquare(s, d, 1)] # board.to_move }

\* a bishop on d4 of the empty board: 13 moves, the corners a1 and h8 among them
C24_Witness ==
    /\ outcome.op = "generate_sliding_moves"
    /\ last.square = 27
    /\ last.piece = "Bishop"
    /\ created = DefaultBoard
    /\ Len(produced) = 13
    /\ {0, 63} \subseteq TargetsFrom(produced, 27)

\* C25: for a knight of the side to move a move is generated to every knight
\* jump on the board that is empty or holds an opposing piece, and to no
\* square holding a piece of the side to move.
C25_KnightOccupancy ==
    \A s \in CheckedSquares("generate_knight_moves", {"Knight"}) :
        /\ \A t \in KnightJumps(s) :
              (t \in TargetsFrom(produced, s))
                 <=> (board.colors[t] = None \/ board.colors[t] = Flip(board.to_move))
        /\ \A t \in TargetsFrom(produced, s) : board.colors[t] # board.to_move

\* a White knight on e5 with White pieces on d3, f3, c4, g4 and Black pieces on
\* c6, g6, d7, f7: the four captures
C25_Witness ==
    /\ outcome.op = "generate_knight_moves"
    /\ last.square = 36
    /\ board.to_move = "White"
    /\ \A t \in {19, 21, 26, 30} : board.colors[t] = "White"
    /\ \A t \in {42, 46, 51, 53} : board.colors[t] = "Black"
    /\ TargetsFrom(produced, 36) = {42, 46, 51, 53}
    /\ Len(produced) = 4

PieceLetters == {"P", "N", "B", "R", "Q", "K", "p", "n", "b", "r", "q", "k"}

\* the '/' characters of a placement text before position i
SlashesBefore(field, i) == {j \in 1 .. (i - 1) : field[j] = "/"}

\* where the rank segment holding position i starts
SegmentStart(field, i) ==
    IF SlashesBefore(field, i) = {} THEN 1
    ELSE (CHOOSE j \in SlashesBefore(field, i) : \A k \in SlashesBefore(field, i) : k <= j) + 1

\* the files a character of a rank segment stands for
FilesOf(c) == IF c \in SeqRange(RankDigits) THEN to_digit(c) ELSE 1

RECURSIVE FilesBetween(_, _, _)
\* the files the characters lo .. hi of a rank segment stand for
FilesBetween(field, lo, hi) ==
    IF lo > hi THEN 0 ELSE FilesOf(field[hi]) + FilesBetween(field, lo, hi - 1)

\* C26: in every placement from_fen accepts, each piece letter is put on the
\* rank being scanned (7 minus the '/' read so far) at a file in [0,8), the
\* files described before it in its segment.
C26_WithinRank ==
    DecodedOk =>
        LET field == FenFields[1]
        IN  \A i \in 1 .. Len(field) :
               field[i] \in PieceLetters =>
                  LET rank == 7 - Cardinality(SlashesBefore(field, i))
                      file == FilesBetween(field, SegmentStart(field, i), i - 1)
                  IN  /\ file \in 0 .. 7
                      /\ rank \in 0 .. 7
                      /\ to_symbol(board.squares[rank * 8 + file],
                                   board.colors[rank * 8 + file]) = field[i]

\* C27: every move generate_moves adds to the move list starts on a square
\* holding a piece of the side to move and ends on another square of the
\* board that does not hold a piece of the side to move.
C27_MovesWellFormed ==
    outcome.op = "generate_moves" =>
        \A i \in 1 .. Len(produced) :
            LET s == produced[i].starting_square
                t == produced[i].target_square
            IN  /\ s \in SquareIndices
                /\ board.squares[s] # None
                /\ board.colors[s] = board.to_move
                /\ t \in SquareIndices
                /\ t # s
                /\ board.colors[t] # board.to_move

\* generate_moves on a Position with knights and pawns of both colours, White
\* to move: 16 moves, none from a Black piece
C27_Witness ==
    /\ outcome.op = "generate_moves"
    /\ outcome.status = "ok"
    /\ last.op = "none"
    /\ board.to_move = "White"
    /\ board.squares[57] = "Knight"
    /\ board.colors[57] = "Black"
    /\ board.squares[45] = "Knight"
    /\ board.colors[45] = "White"
    /\ Len(produced) = 16
    /\ Move(45, 62) \in SeqRange(produced)

\* C28: generate_moves produces no move from a square holding a king, and no
\* move at all when the side to move has only kings.
C28_KingsSilent ==
    outcome.op = "generate_moves" =>
        /\ \A i \in 1 .. Len(produced) :
              board.squares[produced[i].starting_square] # "King"
        /\ (\A s \in SquareIndices :
               board.colors[s] = board.to_move => board.squares[s] = "King")
              => produced = <<>>

\* generate_moves on a Position where Black, to move, has the king of e8 only
C28_Witness ==
    /\ outcome.op = "generate_moves"
    /\ outcome.status = "ok"
    /\ board.to_move = "Black"
    /\ board.squares[60] = "King"
    /\ board.colors[60] = "Black"
    /\ \A s \in SquareIndices \ {60} : board.colors[s] # "Black"
    /\ produced = <<>>
    /\ calls = 1

\* C29: move_piece from an empty source raises no error, leaves the source
\* empty, empties the target, flips the side to move and leaves every other
\* square and field as it was.
C29_EmptySourceMove ==
    [][ ( /\ outcome'.op = "move_piece"
          /\ board.squares[last'.mv.starting_square] = None
          /\ board.colors[last'.mv.starting_square] = None )
        => LET s == last'.mv.starting_square
               t == last'.mv.target_square
           IN  /\ outcome'.status = "ok"
               /\ board'.squares[s] = None
               /\ board'.colors[s] = None
               /\ board'.squares[t] = None
               /\ board'.colors[t] = None
               /\ MoveFrame(board, board', s, t)
               /\ Bookkeeping(board') = Bookkeeping(board) ]_vars

\* move_piece from the empty e3 onto the pawn of e7 has just been made
C29_Witness ==
    /\ outcome.op = "move_piece"
    /\ outcome.status = "ok"
    /\ last.mv = Move(20, 52)
    /\ nops = 1
    /\ created.squares[20] = None
    /\ created.squares[52] = "Pawn"
    /\ board.squares[20] = None
    /\ board.colors[52] = None
    /\ board.to_move = Flip(created.to_move)
    /\ Bookkeeping(board) = Bookkeeping(created)

\* the castling letters of a Position in the order K, Q, k, q, "-" for none
CastlingLetters(b) ==
    LET Held(c) == CASE c = "K" -> b.can_white_king_side_castle
                     [] c = "Q" -> b.can_white_queen_side_castle
                     [] c = "k" -> b.can_black_king_side_castle
                     [] c = "q" -> b.can_black_queen_side_castle
        letters == SelectSeq(<<"K", "Q", "k", "q">>, Held)
    IN  IF letters = <<>> THEN <<"-">> ELSE letters

\* C30: the text to_fen writes has six fields separated by single spaces; its
\* placement has 8 segments separated by 7 '/', from rank 8 down to rank 1,
\* each adding up to 8 files with no two digits adjacent and each letter the
\* piece of its square; the castling letters are in the order K, Q, k, q with
\* '-' exactly when no right is held.
C30_WellFormed ==
    outcome.op = "to_fen" =>
        LET fields == split_whitespace(fen)
            field == fields[1]
            n == Len(field)
        IN  /\ Cardinality({i \in 1 .. Len(fen) : fen[i] = " "}) = 5
            /\ Len(fields) = 6
            /\ Cardinality({i \in 1 .. n : field[i] = "/"}) = 7
            /\ \A i \in 1 .. n : field[i] \in PlacementAlphabet
            /\ \A i \in 1 .. n :
                  (field[i] # "/" /\ (i = n \/ field[i + 1] = "/"))
                     => FilesBetween(field, SegmentStart(field, i), i) = 8
            /\ field[1] # "/" /\ field[n] # "/"
            /\ \A i \in 1 .. (n - 1) :
                  /\ ~(field[i] = "/" /\ field[i + 1] = "/")
                  /\ ~(field[i] \in SeqRange(RankDigits) /\ field[i + 1] \in SeqRange(RankDigits))
            /\ \A i \in 1 .. n :
                  field[i] \in PieceLetters =>
                     LET index == (7 - Cardinality(SlashesBefore(field, i))) * 8
                                     + FilesBetween(field, SegmentStart(field, i), i - 1)
                     IN  to_symbol(board.squares[index], board.colors[index]) = field[i]
            /\ Cardinality({i \in 1 .. n : field[i] \in PieceLetters})
                  = Cardinality({s \in SquareIndices : board.squares[s] # None})
            /\ fields[3] = CastlingLetters(board)

\* the Italian game Position, decoded with the rights K and q, written back
C30_Witness ==
    /\ outcome.op = "to_fen"
    /\ split_whitespace(fen)[1] = Chars(ItalianPlacement)
    /\ split_whitespace(fen)[3] = <<"K", "q">>
    /\ board.squares[26] = "Bishop"
    /\ board.can_white_king_side_castle
    /\ board.can_black_queen_side_castle

====
